---- MODULE Spec2Model ----
(***************************************************************************)
(* A model of fast-rcnn/lib/gt_data_layer/roidb.py: prepare_roidb,         *)
(* add_bbox_regression_targets and _compute_targets.                       *)
(*                                                                         *)
(* Numbers.  numpy's floating-point values are modelled by exact values:   *)
(*   [k |-> "rat",  n, d]   the rational n/d (d > 0, lowest terms)         *)
(*   [k |-> "root", n, d]   sign(n) * sqrt(|n|/d), a quotient by a std     *)
(*   [k |-> "nan"]  and [k |-> "inf"]  (n = +1/-1) as numpy produces them  *)
(* Rounding to float32/float64 is not modelled.  np.log is modelled by the *)
(* first term of ln r = 2 atanh((r-1)/(r+1)), which is rational, zero      *)
(* exactly at r = 1 and has the sign of ln r.                              *)
(* Indices are 0-based as in the source; TLA+ sequences are 1-based, so    *)
(* element i of an array a is a[i+1].                                      *)
(***************************************************************************)
EXTENDS Integers, Sequences, FiniteSets, TLC

\* ------------------------------------------------------------- numbers ----

Abs(i) == IF i < 0 THEN -i ELSE i

Sign(i) == IF i < 0 THEN -1 ELSE IF i = 0 THEN 0 ELSE 1

RECURSIVE Gcd(_, _)
Gcd(a, b) == IF b = 0 THEN a ELSE Gcd(b, a % b)

\* the rational n/d in lowest terms with a positive denominator (d # 0)
Rat(n, d) ==
    LET g == Gcd(Abs(n), Abs(d))
        s == IF d < 0 THEN -1 ELSE 1
    IN  [k |-> "rat", n |-> s * (n \div g), d |-> s * (d \div g)]

Zero == Rat(0, 1)

NaN == [k |-> "nan", n |-> 0, d |-> 0]

Inf(s) == [k |-> "inf", n |-> s, d |-> 0]

IsRat(x) == x.k = "rat"

\* numpy's x != 0 (true of nan and of inf)
IsZero(x) == x.k = "rat" /\ x.n = 0

FromInt(i) == Rat(i, 1)

RAdd(x, y) ==
    IF IsRat(x) /\ IsRat(y)
    THEN LET g == Gcd(x.d, y.d)
         IN  Rat(x.n * (y.d \div g) + y.n * (x.d \div g), x.d * (y.d \div g))
    ELSE NaN

RNeg(x) == IF IsRat(x) THEN Rat(-x.n, x.d) ELSE NaN

RSub(x, y) == RAdd(x, RNeg(y))

RMul(x, y) ==
    IF IsRat(x) /\ IsRat(y)
    THEN LET g1 == Gcd(Abs(x.n), y.d)
             g2 == Gcd(Abs(y.n), x.d)
         IN  Rat((x.n \div g1) * (y.n \div g2), (x.d \div g2) * (y.d \div g1))
    ELSE NaN

\* numpy true division: x/0 is nan for x = 0 and +-inf otherwise; a division
\* by a square root sqrt(p/q) gives sign(x) * sqrt(x^2 * q / p)
RDiv(x, y) ==
    IF ~IsRat(x) \/ y.k \in {"nan", "inf"} THEN NaN
    ELSE IF y.n = 0 THEN (IF x.n = 0 THEN NaN ELSE Inf(Sign(x.n)))
    ELSE IF y.k = "rat" THEN RMul(x, Rat(y.d, y.n))
    ELSE LET q == RMul(RMul(x, x), Rat(y.d, Abs(y.n)))
         IN  IF q.n = 0 THEN Zero
             ELSE [k |-> "root", n |-> Sign(x.n) * Sign(y.n) * q.n, d |-> q.d]

\* np.sqrt: nan for a negative argument
RSqrt(x) ==
    IF ~IsRat(x) THEN NaN
    ELSE IF x.n < 0 THEN NaN
    ELSE IF x.n = 0 THEN Zero
    ELSE [k |-> "root", n |-> x.n, d |-> x.d]

\* np.log, see the note above
RLog(x) == RDiv(RMul(FromInt(2), RSub(x, FromInt(1))), RAdd(x, FromInt(1)))

RLess(x, y) == x.n * y.d < y.n * x.d

\* ------------------------------------------------------------- arrays -----

\* scipy.sparse storage of a dense matrix (a sequence of rows): the shape and
\* the nonzero entries, a function from <<row, column>> (0-based) to the value
Csr(a, ncols) ==
    LET stored == {p \in (0..(Len(a) - 1)) \X (0..(ncols - 1)) :
                      a[p[1] + 1][p[2] + 1] # Zero}
    IN  [shape |-> <<Len(a), ncols>>,
         nz    |-> [p \in stored |-> a[p[1] + 1][p[2] + 1]]]

\* sparse.toarray(): the dense matrix, zero wherever nothing is stored
ToArray(m) ==
    [i \in 1..m.shape[1] |->
        [j \in 1..m.shape[2] |->
            IF <<i - 1, j - 1>> \in DOMAIN m.nz THEN m.nz[<<i - 1, j - 1>>] ELSE Zero]]

\* ndarray.max over one row: a single pass keeping the largest value seen
RECURSIVE MaxScan(_, _, _)
MaxScan(row, j, best) ==
    IF j > Len(row) THEN best
    ELSE MaxScan(row, j + 1, IF RLess(best, row[j]) THEN row[j] ELSE best)

RowMax(row) == MaxScan(row, 2, row[1])

\* ndarray.argmax over one row: a single pass that moves to a later column
\* only when its value is strictly larger; the result is a 0-based column
RECURSIVE ArgMaxScan(_, _, _)
ArgMaxScan(row, j, best) ==
    IF j > Len(row) THEN best - 1
    ELSE ArgMaxScan(row, j + 1, IF RLess(row[best], row[j]) THEN j ELSE best)

\* mutant of ArgMax: the scan also moves on an equal value, so the last of
\* the largest columns wins
RECURSIVE ArgMaxScanLast(_, _, _)
ArgMaxScanLast(row, j, best) ==
    IF j > Len(row) THEN best - 1
    ELSE ArgMaxScanLast(row, j + 1, IF RLess(row[j], row[best]) THEN best ELSE j)

ArgMaxLast(row) == ArgMaxScanLast(row, 2, 1)

ArgMax(row) == ArgMaxScan(row, 2, 1)

\* np.tile(a, reps) of a one-dimensional array
RECURSIVE Tile(_, _)
Tile(a, reps) == IF reps = 0 THEN <<>> ELSE a \o Tile(a, reps - 1)

\* np.zeros((nrows, ncols))
Zeros(nrows, ncols) == [i \in 1..nrows |-> [j \in 1..ncols |-> Zero]]

\* ------------------------------------------------------- configuration ----

\* cfg.EPS, a small positive number set in fast_rcnn/config.py; any positive
\* value keeps a count n + EPS away from 0 and from n
EPS == Rat(1, 4)

\* cfg.TRAIN.BBOX_THRESH, set in fast_rcnn/config.py
BBOX_THRESH == Rat(1, 2)

\* len(cfg.TRAIN.SCALES)
NumScales == 2

\* ------------------------------------------------------- prepare_roidb ----

\* lines 26-34: the three derived arrays of one image record
MaxOverlaps(rec) ==
    LET gt_overlaps == ToArray(rec.gt_overlaps)
    IN  [j \in 1..Len(gt_overlaps) |-> RowMax(gt_overlaps[j])]

MaxClasses(rec) ==
    LET gt_overlaps == ToArray(rec.gt_overlaps)
    IN  [j \in 1..Len(gt_overlaps) |-> ArgMax(gt_overlaps[j])]

MaxSubclasses(rec) ==
    LET max_classes == MaxClasses(rec)
    IN  [j \in 1..Len(max_classes) |-> rec.gt_subindexes[j][max_classes[j] + 1]]

\* mutant of SanityChecks: the two assertions on max_subclasses are missing
SanityChecksNoSubclasses(max_overlaps, max_classes, max_subclasses) ==
    LET zero_inds    == {j \in 1..Len(max_overlaps) : IsZero(max_overlaps[j])}
        nonzero_inds == {j \in 1..Len(max_overlaps) : RLess(Zero, max_overlaps[j])}
    IN  /\ \A j \in zero_inds : max_classes[j] = 0
        /\ \A j \in nonzero_inds : max_classes[j] # 0

\* mutant of SanityChecks: the two assertions on the foreground are missing
SanityChecksBackgroundOnly(max_overlaps, max_classes, max_subclasses) ==
    LET zero_inds == {j \in 1..Len(max_overlaps) : IsZero(max_overlaps[j])}
    IN  /\ \A j \in zero_inds : max_classes[j] = 0
        /\ \A j \in zero_inds : max_subclasses[j] = 0

\* lines 40-46: the four assertions
SanityChecks(max_overlaps, max_classes, max_subclasses) ==
    LET zero_inds    == {j \in 1..Len(max_overlaps) : IsZero(max_overlaps[j])}
        nonzero_inds == {j \in 1..Len(max_overlaps) : RLess(Zero, max_overlaps[j])}
    IN  /\ \A j \in zero_inds : max_classes[j] = 0
        /\ \A j \in zero_inds : max_subclasses[j] = 0
        /\ \A j \in nonzero_inds : max_classes[j] # 0
        /\ \A j \in nonzero_inds : max_subclasses[j] # 0

\* ---------------------------------------------------- _compute_targets ----

\* mutant of ExInds: max_overlaps > BBOX_THRESH
ExIndsStrict(gt_overlaps_grid) ==
    {i \in 1..Len(gt_overlaps_grid) :
        RLess(BBOX_THRESH, RowMax(gt_overlaps_grid[i]))}

\* line 107: the rows selected for regression, 1-based
ExInds(gt_overlaps_grid) ==
    {i \in 1..Len(gt_overlaps_grid) :
        ~RLess(RowMax(gt_overlaps_grid[i]), BBOX_THRESH)}

\* lines 113-126: the four deltas of an example box ex against its match gt
Deltas(ex, gt) ==
    LET half       == Rat(1, 2)
        ex_widths  == RAdd(FromInt(ex[3] - ex[1]), EPS)
        ex_heights == RAdd(FromInt(ex[4] - ex[2]), EPS)
        ex_ctr_x   == RAdd(FromInt(ex[1]), RMul(half, ex_widths))
        ex_ctr_y   == RAdd(FromInt(ex[2]), RMul(half, ex_heights))
        gt_widths  == RAdd(FromInt(gt[3] - gt[1]), EPS)
        gt_heights == RAdd(FromInt(gt[4] - gt[2]), EPS)
        gt_ctr_x   == RAdd(FromInt(gt[1]), RMul(half, gt_widths))
        gt_ctr_y   == RAdd(FromInt(gt[2]), RMul(half, gt_heights))
    IN  << RDiv(RSub(gt_ctr_x, ex_ctr_x), ex_widths),
           RDiv(RSub(gt_ctr_y, ex_ctr_y), ex_heights),
           RLog(RDiv(gt_widths, ex_widths)),
           RLog(RDiv(gt_heights, ex_heights)) >>

\* mutant of EmptyTargets: the label column is forgotten
EmptyTargetsFourColumns(boxes_grid) == Zeros(Len(boxes_grid), 4)

\* line 101
EmptyTargets(boxes_grid) == Zeros(Len(boxes_grid), 5)

\* lines 98-134
ComputeTargets(boxes_grid, boxes_all, gt_overlaps_grid, gt_classes_all, ncols) ==
    IF ncols = 0
    THEN EmptyTargets(boxes_grid)
    ELSE LET ex_inds == ExInds(gt_overlaps_grid)
         IN  [i \in 1..Len(boxes_grid) |->
                IF i \in ex_inds
                THEN LET gt_ind == ArgMax(gt_overlaps_grid[i])
                     IN  <<FromInt(gt_classes_all[gt_ind + 1])>>
                         \o Deltas(boxes_grid[i], boxes_all[gt_ind + 1])
                ELSE [j \in 1..5 |-> Zero]]

\* ----------------------------------------- add_bbox_regression_targets ----

\* the dense value of bbox_targets, whichever way it is stored
Dense(bt) == IF bt.fmt = "csr" THEN ToArray(bt.a) ELSE bt.a

\* line 73 / 86: np.where(targets[:, 0] == cls)[0], 1-based
ClsInds(targets, cls) == {r \in 1..Len(targets) : targets[r][1] = FromInt(cls)}

\* targets[cls_inds, 1:].sum(axis=0)[k-1], rows taken in index order
RECURSIVE ColSum(_, _, _, _)
ColSum(targets, inds, k, r) ==
    IF r > Len(targets) THEN Zero
    ELSE IF r \in inds
         THEN RAdd(targets[r][k + 1], ColSum(targets, inds, k, r + 1))
         ELSE ColSum(targets, inds, k, r + 1)

\* (targets[cls_inds, 1:] ** 2).sum(axis=0)[k-1]
RECURSIVE ColSqSum(_, _, _, _)
ColSqSum(targets, inds, k, r) ==
    IF r > Len(targets) THEN Zero
    ELSE IF r \in inds
         THEN RAdd(RMul(targets[r][k + 1], targets[r][k + 1]),
                   ColSqSum(targets, inds, k, r + 1))
         ELSE ColSqSum(targets, inds, k, r + 1)

\* mutant of CountSeed: np.zeros((num_classes, 1)) without cfg.EPS
CountSeedZero == Zero

\* line 67: the seed of every class count
CountSeed == EPS

\* lines 72-77 for one image, the class loop starting at class first: the
\* accumulators after its rows are added; acc = [class_counts, sums,
\* squared_sums], indexed by class + 1
AccumulateFrom(acc, targets, num_classes, first) ==
    LET Hit(c) == c - 1 \in first..(num_classes - 1) /\ ClsInds(targets, c - 1) # {}
    IN  [class_counts |->
            [c \in 1..num_classes |->
                IF Hit(c)
                THEN RAdd(acc.class_counts[c],
                          FromInt(Cardinality(ClsInds(targets, c - 1))))
                ELSE acc.class_counts[c]],
         sums |->
            [c \in 1..num_classes |->
                IF Hit(c)
                THEN [k \in 1..4 |->
                        RAdd(acc.sums[c][k],
                             ColSum(targets, ClsInds(targets, c - 1), k, 1))]
                ELSE acc.sums[c]],
         squared_sums |->
            [c \in 1..num_classes |->
                IF Hit(c)
                THEN [k \in 1..4 |->
                        RAdd(acc.squared_sums[c][k],
                             ColSqSum(targets, ClsInds(targets, c - 1), k, 1))]
                ELSE acc.squared_sums[c]]]

\* mutant of Accumulate: for cls in xrange(num_classes)
AccumulateAllClasses(acc, targets, num_classes) ==
    AccumulateFrom(acc, targets, num_classes, 0)

\* line 72: for cls in xrange(1, num_classes)
Accumulate(acc, targets, num_classes) == AccumulateFrom(acc, targets, num_classes, 1)

\* line 79
Means(acc) ==
    [c \in 1..Len(acc.sums) |->
        [k \in 1..4 |-> RDiv(acc.sums[c][k], acc.class_counts[c])]]

\* line 80
Stds(acc) ==
    LET m == Means(acc)
    IN  [c \in 1..Len(acc.sums) |->
            [k \in 1..4 |->
                RSqrt(RSub(RDiv(acc.squared_sums[c][k], acc.class_counts[c]),
                           RMul(m[c][k], m[c][k])))]]

\* line 88: whether the rows of class cls are divided by stds[cls, :]
Divides(sd, cls) == ~IsZero(sd[cls + 1][1])

\* lines 85-89 for one row of class cls >= 1
NormalizeRow(row, cls, mn, sd) ==
    [j \in 1..5 |->
        IF j = 1 THEN row[1]
        ELSE LET centred == RSub(row[j], mn[cls + 1][j - 1])
             IN  IF Divides(sd, cls) THEN RDiv(centred, sd[cls + 1][j - 1])
                 ELSE centred]

\* lines 84-89 for one image
Normalize(targets, num_classes, mn, sd) ==
    [r \in 1..Len(targets) |->
        IF \E cls \in 1..(num_classes - 1) : targets[r][1] = FromInt(cls)
        THEN NormalizeRow(targets[r],
                          CHOOSE cls \in 1..(num_classes - 1) : targets[r][1] = FromInt(cls),
                          mn, sd)
        ELSE targets[r]]

\* ------------------------------------------------------------- inputs -----

\* images of the corpus
NumImages == 2

\* columns of gt_overlaps: the classes, 0 being the background
NumClasses == 3

\* the evaluation grid, boxes (x1, y1, x2, y2), the same for every image
BoxesGrid == << <<0, 0, 2, 2>>, <<1, 0, 3, 2>> >>

\* candidate boxes of boxes_all
Boxes == { <<0, 0, 2, 2>>, <<0, 0, 4, 4>> }

\* overlap values
OverlapVals == {Zero, Rat(1, 4), Rat(1, 2), Rat(1, 1)}

\* a record as the dataset loader leaves it, before either pass
Record(gt_overlaps, gt_subindexes, boxes_all, gt_overlaps_grid, gt_classes) ==
    [keys             |-> {},
     gt_overlaps      |-> Csr(gt_overlaps, NumClasses),
     gt_subindexes    |-> gt_subindexes,
     boxes_all        |-> boxes_all,
     gt_overlaps_grid |-> Csr(gt_overlaps_grid, Len(boxes_all)),
     gt_classes       |-> gt_classes,
     image            |-> -1,
     max_classes      |-> <<>>,
     max_subclasses   |-> <<>>,
     max_overlaps     |-> <<>>,
     bbox_targets     |-> [fmt |-> "none", a |-> <<>>]]

\* region rows of gt_overlaps: background, one class c at value v, and two
\* classes c1, c2 at the same value v
BgRow == [c \in 1..NumClasses |-> Zero]

FgRow(c, v) == [j \in 1..NumClasses |-> IF j = c + 1 THEN v ELSE Zero]

TieRow(c1, c2, v) == [j \in 1..NumClasses |-> IF j \in {c1 + 1, c2 + 1} THEN v ELSE Zero]

\* sub-class rows: the sub-class of class c is c (0 for the background)
SubRow == [j \in 1..NumClasses |-> j - 1]

NoSubRow == [j \in 1..NumClasses |-> 0]

\* the region part of a record: (gt_overlaps, gt_subindexes), two regions
CorpusRoi ==
    { << <<BgRow, FgRow(1, Rat(1, 2))>>, <<NoSubRow, SubRow>> >>,
      << <<TieRow(1, 2, Rat(1, 1)), BgRow>>, <<SubRow, SubRow>> >>,
      << <<BgRow, TieRow(0, 1, Rat(1, 2))>>, <<NoSubRow, SubRow>> >> }

\* the grid part of a record: (boxes_all, gt_overlaps_grid, gt_classes), with
\* no ground truth, or one ground-truth box at NumScales scales
NoGt == << <<>>, [i \in 1..Len(BoxesGrid) |-> <<>>], <<>> >>

CorpusGrid ==
    {NoGt} \cup
    { << << <<0, 0, 2, 2>>, <<0, 0, 4, 4>> >>, ov, <<c>> >> :
        c \in 1..(NumClasses - 1),
        ov \in { << <<Rat(1, 1), Zero>>, <<Rat(1, 2), Rat(1, 4)>> >>,
                 << <<Rat(1, 4), Zero>>, <<Rat(1, 2), Rat(1, 1)>> >> } }

\* a valid region part with every grid part, and every region part with no
\* ground truth on the grid
CorpusImages ==
    { Record(<<BgRow, FgRow(1, Rat(1, 2))>>, <<NoSubRow, SubRow>>, g[1], g[2], g[3]) :
        g \in CorpusGrid } \cup
    { Record(r[1], r[2], NoGt[1], NoGt[2], NoGt[3]) : r \in CorpusRoi }

\* every one-region image over the overlap values, with a fixed grid part
AllRoi ==
    { << <<ov>>, <<sub>> >> :
        ov \in [1..NumClasses -> {Zero, Rat(1, 2), Rat(1, 1)}],
        sub \in [1..NumClasses -> {0, 1}] }

\* every grid part over the overlap values, with one ground-truth box of
\* class 1
AllGrid ==
    {NoGt} \cup
    { << ba, ov, <<1>> >> :
        ba \in [1..NumScales -> Boxes],
        ov \in [1..Len(BoxesGrid) -> [1..NumScales -> OverlapVals]] }

SingleImages ==
    { Record(r[1], r[2], NoGt[1], NoGt[2], NoGt[3]) : r \in AllRoi } \cup
    { Record(<<BgRow>>, <<NoSubRow>>, g[1], g[2], g[3]) : g \in AllGrid }

\* -------------------------------------------------------------- state ------

VARIABLES
    roidb,          \* the image records, roidb[im + 1] for image im
    pc,             \* where the caller or the running function stands
    i,              \* the loop index of the running function (i, im_i)
    acc,            \* class_counts, sums, squared_sums
    means, stds,    \* lines 79-80, <<>> before they are computed
    ret             \* the returned (means.ravel(), stds.ravel())

vars == <<roidb, pc, i, acc, means, stds, ret>>

NoAcc == [class_counts |-> <<>>, sums |-> <<>>, squared_sums |-> <<>>]

Init ==
    /\ \/ roidb \in [1..NumImages -> CorpusImages]
       \/ \E rec \in SingleImages : roidb = <<rec>>
    /\ pc = "idle"
    /\ i = 0
    /\ acc = NoAcc
    /\ means = <<>>
    /\ stds = <<>>
    /\ ret = <<>>

\* ------------------------------------------------------------ actions -----

\* prepare_roidb is called: lines 22-23
CallPrepare ==
    /\ pc = "idle"
    /\ pc' = "prepare"
    /\ i' = 0
    /\ UNCHANGED <<roidb, acc, means, stds, ret>>

\* the record of image im after lines 24-37
Enriched(rec, im) ==
    [rec EXCEPT !.keys = @ \cup {"image", "max_classes", "max_subclasses", "max_overlaps"},
                !.image = im,
                !.max_classes = MaxClasses(rec),
                !.max_subclasses = MaxSubclasses(rec),
                !.max_overlaps = MaxOverlaps(rec)]

\* one iteration of the loop of prepare_roidb, lines 24-46: the fields are
\* written, then a failed assertion ends the call
PrepareImage ==
    /\ pc = "prepare"
    /\ i < Len(roidb)
    /\ LET rec == Enriched(roidb[i + 1], i)
       IN  /\ roidb' = [roidb EXCEPT ![i + 1] = rec]
           /\ IF SanityChecks(rec.max_overlaps, rec.max_classes, rec.max_subclasses)
              THEN pc' = "prepare" /\ i' = i + 1
              ELSE pc' = "prepare_failed" /\ i' = i
    /\ UNCHANGED <<acc, means, stds, ret>>

\* prepare_roidb returns after the last image
PrepareReturn ==
    /\ pc = "prepare"
    /\ i = Len(roidb)
    /\ pc' = "prepared"
    /\ UNCHANGED <<roidb, i, acc, means, stds, ret>>

\* lines 50-51: the assertions of add_bbox_regression_targets
AddAsserts(db) == Len(db) > 0 /\ "max_classes" \in db[1].keys

\* add_bbox_regression_targets is called, lines 50-55, whether or not
\* prepare_roidb was called before and however it ended
CallAdd ==
    /\ pc \in {"idle", "prepared", "prepare_failed"}
    /\ IF AddAsserts(roidb) THEN pc' = "targets" ELSE pc' = "add_failed"
    /\ i' = 0
    /\ UNCHANGED <<roidb, acc, means, stds, ret>>

\* one iteration of the first loop, lines 58-63
TargetsImage ==
    /\ pc = "targets"
    /\ i < Len(roidb)
    /\ LET rec == roidb[i + 1]
           gt_overlaps_grid == ToArray(rec.gt_overlaps_grid)
           gt_classes_all == Tile(rec.gt_classes, NumScales)
           targets == ComputeTargets(BoxesGrid, rec.boxes_all, gt_overlaps_grid,
                                     gt_classes_all, rec.gt_overlaps_grid.shape[2])
       IN  roidb' = [roidb EXCEPT ![i + 1].bbox_targets = [fmt |-> "dense", a |-> targets],
                                  ![i + 1].keys = @ \cup {"bbox_targets"}]
    /\ i' = i + 1
    /\ UNCHANGED <<pc, acc, means, stds, ret>>

\* lines 67-69
InitStats ==
    /\ pc = "targets"
    /\ i = Len(roidb)
    /\ LET num_classes == roidb[1].gt_overlaps.shape[2]
       IN  acc' = [class_counts |-> [c \in 1..num_classes |-> CountSeed],
                   sums         |-> Zeros(num_classes, 4),
                   squared_sums |-> Zeros(num_classes, 4)]
    /\ pc' = "accumulate"
    /\ i' = 0
    /\ UNCHANGED <<roidb, means, stds, ret>>

\* mutant of AccumulateImage: one loop that accumulates an image and at once
\* rewrites it with the statistics of the images seen so far
AccumulateNormalizeImage ==
    /\ pc = "accumulate"
    /\ i < Len(roidb)
    /\ LET num_classes == roidb[1].gt_overlaps.shape[2]
           targets == roidb[i + 1].bbox_targets.a
           seen == Accumulate(acc, targets, num_classes)
           rewritten == Normalize(targets, num_classes, Means(seen), Stds(seen))
       IN  /\ acc' = seen
           /\ roidb' = [roidb EXCEPT ![i + 1].bbox_targets =
                                         [fmt |-> "csr", a |-> Csr(rewritten, 5)]]
    /\ i' = i + 1
    /\ UNCHANGED <<pc, means, stds, ret>>

\* one iteration of the second loop, lines 71-77
AccumulateImage ==
    /\ pc = "accumulate"
    /\ i < Len(roidb)
    /\ acc' = Accumulate(acc, roidb[i + 1].bbox_targets.a, roidb[1].gt_overlaps.shape[2])
    /\ i' = i + 1
    /\ UNCHANGED <<roidb, pc, means, stds, ret>>

\* lines 79-80
MeansStds ==
    /\ pc = "accumulate"
    /\ i = Len(roidb)
    /\ means' = Means(acc)
    /\ stds' = Stds(acc)
    /\ pc' = "normalize"
    /\ i' = 0
    /\ UNCHANGED <<roidb, acc, ret>>

\* one iteration of the third loop, lines 84-92
NormalizeImage ==
    /\ pc = "normalize"
    /\ i < Len(roidb)
    /\ LET targets == Normalize(roidb[i + 1].bbox_targets.a,
                                roidb[1].gt_overlaps.shape[2], means, stds)
       IN  roidb' = [roidb EXCEPT ![i + 1].bbox_targets =
                                      [fmt |-> "csr", a |-> Csr(targets, 5)]]
    /\ i' = i + 1
    /\ UNCHANGED <<pc, acc, means, stds, ret>>

\* ndarray.ravel() of a (num_classes, 4) array
RECURSIVE Ravel(_)
Ravel(m) == IF m = <<>> THEN <<>> ELSE Head(m) \o Ravel(Tail(m))

\* line 96
Return ==
    /\ pc = "normalize"
    /\ i = Len(roidb)
    /\ ret' = <<Ravel(means), Ravel(stds)>>
    /\ pc' = "done"
    /\ UNCHANGED <<roidb, i, acc, means, stds>>

Next ==
    \/ CallPrepare
    \/ PrepareImage
    \/ PrepareReturn
    \/ CallAdd
    \/ TargetsImage
    \/ InitStats
    \/ AccumulateImage
    \/ MeansStds
    \/ NormalizeImage
    \/ Return

Spec == Init /\ [][Next]_vars

\* ------------------------------------------------------------- claims -----

Images == 1..Len(roidb)

HasKey(im, key) == key \in roidb[im].keys

\* the raw targets of a record, from its inputs
RawTargets(rec) ==
    ComputeTargets(BoxesGrid, rec.boxes_all, ToArray(rec.gt_overlaps_grid),
                   Tile(rec.gt_classes, NumScales), rec.gt_overlaps_grid.shape[2])

\* the columns (0-based) of a row that hold its largest value
MaxColumns(row) ==
    {c \in 0..(Len(row) - 1) : \A d \in 1..Len(row) : ~RLess(row[c + 1], row[d])}

Lowest(S) == CHOOSE c \in S : \A d \in S : c <= d

\* C1: once prepare_roidb has returned normally, in every region of every
\* image max_overlaps is 0 exactly when max_classes is 0 and exactly when
\* max_subclasses is 0, and it is positive exactly when both are nonzero.
C1_BackgroundAgreement ==
    pc = "prepared" =>
        \A im \in Images : \A j \in 1..Len(roidb[im].max_overlaps) :
            LET mo == roidb[im].max_overlaps[j]
                mc == roidb[im].max_classes[j]
                ms == roidb[im].max_subclasses[j]
            IN  /\ IsZero(mo) <=> mc = 0
                /\ mc = 0 <=> ms = 0
                /\ RLess(Zero, mo) <=> mc # 0
                /\ mc # 0 <=> ms # 0

C1_Witness ==
    /\ pc = "prepared"
    /\ \E im \in Images : \E j, l \in 1..Len(roidb[im].max_overlaps) :
        /\ IsZero(roidb[im].max_overlaps[j])
        /\ RLess(Zero, roidb[im].max_overlaps[l])

\* C2: the best-match column of a row is the lowest of the columns that hold
\* the row's largest overlap, in max_classes of prepare_roidb and in the
\* match that _compute_targets uses for the label and the deltas of a
\* selected grid box.
C2_LowestMaximalColumn ==
    \A im \in Images :
        /\ HasKey(im, "max_classes") =>
            \A j \in 1..Len(roidb[im].max_classes) :
                roidb[im].max_classes[j]
                    = Lowest(MaxColumns(ToArray(roidb[im].gt_overlaps)[j]))
        /\ (roidb[im].bbox_targets.fmt = "dense" /\ roidb[im].boxes_all # <<>>) =>
            \A g \in 1..Len(BoxesGrid) :
                LET row  == ToArray(roidb[im].gt_overlaps_grid)[g]
                    best == Lowest(MaxColumns(row))
                    t    == roidb[im].bbox_targets.a[g]
                IN  ~IsZero(t[1]) =>
                        /\ t[1] = FromInt(Tile(roidb[im].gt_classes, NumScales)[best + 1])
                        /\ SubSeq(t, 2, 5) = Deltas(BoxesGrid[g], roidb[im].boxes_all[best + 1])

C2_Witness ==
    \E im \in Images :
        /\ HasKey(im, "max_classes")
        /\ \E j \in 1..Len(roidb[im].max_classes) :
            Cardinality(MaxColumns(ToArray(roidb[im].gt_overlaps)[j])) > 1
        /\ roidb[im].bbox_targets.fmt = "dense"
        /\ roidb[im].boxes_all # <<>>
        /\ \E g \in 1..Len(BoxesGrid) :
            /\ ~IsZero(roidb[im].bbox_targets.a[g][1])
            /\ Cardinality(MaxColumns(ToArray(roidb[im].gt_overlaps_grid)[g])) > 1
            /\ roidb[im].boxes_all[1] # roidb[im].boxes_all[2]

\* a region of an enriched record breaks the background/foreground agreement
Violates(rec) ==
    \E j \in 1..Len(rec.max_overlaps) :
        LET mo == rec.max_overlaps[j]
            mc == rec.max_classes[j]
            ms == rec.max_subclasses[j]
        IN  \/ IsZero(mo) /\ (mc # 0 \/ ms # 0)
            \/ RLess(Zero, mo) /\ (mc = 0 \/ ms = 0)

\* C3: an image with a region that breaks the agreement ends prepare_roidb
\* at that image: the loop does not go on, the call does not return
\* normally, and no later image is enriched.
C3_AbortOnViolation ==
    \A im \in Images :
        (HasKey(im, "max_classes") /\ Violates(roidb[im])) =>
            /\ pc \notin {"prepare", "prepared"}
            /\ \A later \in Images : later > im => ~HasKey(later, "max_classes")
            /\ pc = "prepare_failed" => i = im - 1

C3_Witness ==
    /\ pc = "prepare_failed"
    /\ Len(roidb) > 1
    /\ i = 0
    /\ Violates(roidb[1])
    /\ ~Violates(Enriched(roidb[2], 1))

\* C4: while any record lacks max_classes or max_overlaps,
\* add_bbox_regression_targets gets no further than its assertions: no
\* bbox_targets is written and no statistic is computed.
C4_UnenrichedIsRefused ==
    (\E im \in Images : ~HasKey(im, "max_classes") \/ ~HasKey(im, "max_overlaps")) =>
        /\ pc \notin {"targets", "accumulate", "normalize", "done"}
        /\ \A im \in Images : roidb[im].bbox_targets.fmt = "none"
        /\ acc = NoAcc /\ means = <<>> /\ stds = <<>>

\* C5: an image whose grid overlap matrix has no column gets a target matrix
\* of one row per grid box and 5 columns, all zero, and the call goes on.
C5_EmptyGroundTruth ==
    \A im \in Images :
        (roidb[im].bbox_targets.fmt = "dense" /\ roidb[im].gt_overlaps_grid.shape[2] = 0) =>
            /\ pc \in {"targets", "accumulate", "normalize"}
            /\ Len(roidb[im].bbox_targets.a) = Len(BoxesGrid)
            /\ \A g \in 1..Len(BoxesGrid) :
                /\ Len(roidb[im].bbox_targets.a[g]) = 5
                /\ \A k \in 1..5 : roidb[im].bbox_targets.a[g][k] = Zero

C5_Witness ==
    \E im \in Images :
        /\ roidb[im].bbox_targets.fmt = "dense"
        /\ roidb[im].gt_overlaps_grid.shape[2] = 0
        /\ roidb[im].gt_overlaps_grid.shape[1] = Len(BoxesGrid)

\* C6: in the raw targets of an image, a grid box whose overlaps are all
\* strictly below BBOX_THRESH has label 0 and four zero deltas; a grid box
\* whose largest overlap equals BBOX_THRESH carries the label and the deltas
\* of its best match.
C6_ThresholdGating ==
    \A im \in Images :
        (roidb[im].bbox_targets.fmt = "dense" /\ roidb[im].boxes_all # <<>>) =>
            \A g \in 1..Len(BoxesGrid) :
                LET row == ToArray(roidb[im].gt_overlaps_grid)[g]
                    t   == roidb[im].bbox_targets.a[g]
                    m   == Lowest(MaxColumns(row))
                IN  /\ (\A c \in 1..Len(row) : RLess(row[c], BBOX_THRESH)) =>
                        \A k \in 1..5 : t[k] = Zero
                    /\ row[m + 1] = BBOX_THRESH =>
                        /\ t[1] = FromInt(Tile(roidb[im].gt_classes, NumScales)[m + 1])
                        /\ t[1] # Zero
                        /\ SubSeq(t, 2, 5) = Deltas(BoxesGrid[g], roidb[im].boxes_all[m + 1])

C6_Witness ==
    \E im \in Images :
        /\ roidb[im].bbox_targets.fmt = "dense"
        /\ roidb[im].boxes_all # <<>>
        /\ \E g, h \in 1..Len(BoxesGrid) :
            LET rg == ToArray(roidb[im].gt_overlaps_grid)[g]
                rh == ToArray(roidb[im].gt_overlaps_grid)[h]
            IN  /\ \A c \in 1..Len(rg) : RLess(rg[c], BBOX_THRESH)
                /\ \E c \in 1..Len(rg) : RLess(Zero, rg[c])
                /\ rh[Lowest(MaxColumns(rh)) + 1] = BBOX_THRESH
                /\ roidb[im].bbox_targets.a[h][2] # Zero

NumCls == roidb[1].gt_overlaps.shape[2]

\* the rows <<image, grid box>> whose raw label is class c
RowsOfClass(c) ==
    UNION { LET raw == RawTargets(roidb[im])
            IN  {<<im, g>> : g \in {h \in 1..Len(BoxesGrid) : raw[h][1] = FromInt(c)}} :
            im \in Images }

\* the label of row g of the bbox_targets of image im, dense or sparse
Label(im, g) ==
    LET bt == roidb[im].bbox_targets
    IN  IF bt.fmt = "dense" THEN bt.a[g][1]
        ELSE IF <<g - 1, 0>> \in DOMAIN bt.a.nz THEN bt.a.nz[<<g - 1, 0>>] ELSE Zero

\* the rows <<image, grid box>> that bbox_targets labels with class c
LabelledRows(c) ==
    {r \in Images \X (1..Len(BoxesGrid)) : Label(r[1], r[2]) = FromInt(c)}

\* C7: after the third loop has rewritten an image, a component of a class
\* whose rows all carry one raw value and whose std is 0 holds raw - mean in
\* every row of the class, and a value other than raw - mean (a quotient)
\* stands only where the std of that component is nonzero.
C7_ZeroStdNoDivision ==
    pc \in {"normalize", "done"} =>
        \A c \in 1..(NumCls - 1) : \A k \in 1..4 : \A r \in RowsOfClass(c) :
            roidb[r[1]].bbox_targets.fmt = "csr" =>
                LET raw  == RawTargets(roidb[r[1]])[r[2]][k + 1]
                    now  == ToArray(roidb[r[1]].bbox_targets.a)[r[2]][k + 1]
                    same == \A q \in RowsOfClass(c) :
                                RawTargets(roidb[q[1]])[q[2]][k + 1] = raw
                IN  /\ (same /\ IsZero(stds[c + 1][k])) => now = RSub(raw, means[c + 1][k])
                    /\ now # RSub(raw, means[c + 1][k]) => ~IsZero(stds[c + 1][k])

\* C8: a class without a row anywhere in the corpus, class 0 among them, has
\* four means and four stds that are the number 0, in the arrays and in the
\* returned vectors.
C8_EmptyClassStatistics ==
    pc \in {"normalize", "done"} =>
        \A c \in 0..(NumCls - 1) :
            (c = 0 \/ LabelledRows(c) = {}) =>
                \A k \in 1..4 :
                    /\ means[c + 1][k] = Zero
                    /\ stds[c + 1][k] = Zero
                    /\ pc = "done" =>
                        /\ ret[1][4 * c + k] = Zero
                        /\ ret[2][4 * c + k] = Zero

C8_Witness ==
    /\ pc = "done"
    /\ \E c, e \in 1..(NumCls - 1) : LabelledRows(c) = {} /\ LabelledRows(e) # {}

\* C9: a bbox_targets row with label 0 has four zero deltas, before and after
\* the normalization, and the accumulators count the rows of the classes
\* 1.. only: class 0 keeps its seed and its zero sums, and the count of a
\* class c >= 1 exceeds the seed by the rows labelled c seen so far.
C9_BackgroundRows ==
    /\ \A im \in Images : roidb[im].bbox_targets.fmt # "none" =>
        \A g \in 1..Len(BoxesGrid) :
            LET t == Dense(roidb[im].bbox_targets)[g]
            IN  t[1] = Zero => \A k \in 2..5 : t[k] = Zero
    /\ pc \in {"accumulate", "normalize", "done"} =>
        /\ acc.class_counts[1] = CountSeed
        /\ \A k \in 1..4 : acc.sums[1][k] = Zero /\ acc.squared_sums[1][k] = Zero
        /\ \A c \in 1..(NumCls - 1) :
            LET seen == IF pc = "accumulate" THEN i ELSE Len(roidb)
            IN  RSub(acc.class_counts[c + 1], CountSeed)
                    = FromInt(Cardinality({r \in LabelledRows(c) : r[1] <= seen}))

C9_Witness ==
    /\ pc = "done"
    /\ \E im \in Images : \E g, h \in 1..Len(BoxesGrid) :
        /\ ToArray(roidb[im].bbox_targets.a)[g][1] = Zero
        /\ ToArray(roidb[im].bbox_targets.a)[h][1] # Zero
        /\ roidb[im].boxes_all # <<>>

\* the accumulators of the raw targets of the first n images
RECURSIVE CorpusAcc(_)
CorpusAcc(n) ==
    IF n = 0
    THEN [class_counts |-> [c \in 1..NumCls |-> CountSeed],
          sums         |-> Zeros(NumCls, 4),
          squared_sums |-> Zeros(NumCls, 4)]
    ELSE Accumulate(CorpusAcc(n - 1), RawTargets(roidb[n]), NumCls)

\* C10: an image is in normalized form only in the third loop or after it,
\* when the accumulators hold the raw targets of every image; the means and
\* stds are those of these accumulators, an image the third loop has passed
\* holds its raw targets normalized once with them, and an image it has not
\* reached still holds its raw targets.
C10_SweepOrder ==
    /\ \A im \in Images : roidb[im].bbox_targets.fmt = "csr" =>
        /\ pc \in {"normalize", "done"}
        /\ pc = "normalize" => im <= i
        /\ roidb[im].bbox_targets.a
              = Csr(Normalize(RawTargets(roidb[im]), NumCls, means, stds), 5)
    /\ pc \in {"normalize", "done"} =>
        /\ acc = CorpusAcc(Len(roidb))
        /\ means = Means(acc)
        /\ stds = Stds(acc)
        /\ \A im \in Images :
            IF pc = "done" \/ im <= i
            THEN roidb[im].bbox_targets.fmt = "csr"
            ELSE roidb[im].bbox_targets = [fmt |-> "dense", a |-> RawTargets(roidb[im])]

C10_Witness ==
    /\ pc = "normalize"
    /\ Len(roidb) > 1
    /\ i = 1
    /\ CorpusAcc(1) # CorpusAcc(2)
    /\ RowsOfClass(1) # {}
    /\ roidb[1].bbox_targets.a # Csr(RawTargets(roidb[1]), 5)

====
